---- MODULE Spec2Model ----
(***************************************************************************)
(* Model of idrstream/merge_CP_DP.py: the proximity merge of a CP and a DP *)
(* batch table (merge_CP_DP_batch_data, with its helper full_loc_map) and  *)
(* the directory-scale run over batch files (save_merged_CP_DP_run).       *)
(*                                                                         *)
(* A table (pandas DataFrame) is a record [columns, rows]: columns is the  *)
(* ordered list of column names, rows the ordered list of rows.  A row     *)
(* carries the three columns the merge reads (Metadata_DNA and the two     *)
(* Location_Center columns); its position in the batch is its index label  *)
(* and stands for all other column values of the row.                      *)
(* A location is stored as a count of halves before the integer coercion   *)
(* (3 is the float 1.5) and as an integer after it.                        *)
(***************************************************************************)
EXTENDS Integers, Sequences, FiniteSets, TLC

\* ---- bounds of the model ----
MaxRows == 2
NumImages == 2
MaxCoord == 2
MaxFiles == 3
NumUUIDs == 2

Images == 1..NumImages
Files == 1..MaxFiles
UUIDs == 1..NumUUIDs
\* Row value of Cell_UUID when the column is absent.
NoUUID == 0

\* ---- sequences ----
Range(s) == {s[i] : i \in DOMAIN s}

RECURSIVE Flatten(_)
Flatten(ss) == IF ss = << >> THEN << >> ELSE Head(ss) \o Flatten(Tail(ss))

\* Elements of s without repetition, in order of first appearance (Series.unique).
RECURSIVE Unique(_)
Unique(s) ==
  IF s = << >> THEN << >>
  ELSE LET front == Unique(SubSeq(s, 1, Len(s) - 1))
           last == s[Len(s)]
       IN IF last \in Range(front) THEN front ELSE Append(front, last)

\* Variant of sorted that lists the names in descending order.
RECURSIVE sorted_descending(_)
sorted_descending(S) ==
  IF S = {} THEN << >>
  ELSE LET m == CHOOSE a \in S : \A b \in S : a >= b
       IN <<m>> \o sorted_descending(S \ {m})

\* sorted(): the ascending list of a set of file names.
RECURSIVE sorted(_)
sorted(S) ==
  IF S = {} THEN << >>
  ELSE LET m == CHOOSE a \in S : \A b \in S : a <= b
       IN <<m>> \o sorted(S \ {m})

\* ---- column names ----
LocationColumns == <<"Location_Center_X", "Location_Center_Y">>

CPMaster ==
  <<"Metadata_Plate", "Metadata_DNA", "Location_Center_X", "Location_Center_Y",
    "AreaShape_Area">>

DPMaster ==
  <<"Metadata_Plate", "Metadata_DNA", "Location_Center_X", "Location_Center_Y",
    "efficientnet_0">>

ColumnsFrom(master, S) == SelectSeq(master, LAMBDA c : c \in S)

\* The column lists an input table may have: the location columns and any of
\* the other columns of its pipeline.
ColumnChoices(master) ==
  {ColumnsFrom(master, Range(LocationColumns) \cup S) : S \in SUBSET Range(master)}

\* ---- coordinates ----
\* astype(int) on a float column: truncation toward zero of h halves.
AsInt(h) == IF h >= 0 THEN h \div 2 ELSE -((-h) \div 2)

AsTypeInt(rows) ==
  [i \in DOMAIN rows |->
     [rows[i] EXCEPT !.Location_Center_X = AsInt(@),
                     !.Location_Center_Y = AsInt(@)]]

\* math.hypot(a - c, b - d) orders integer points as its square does.
Hypot2(p, q) == (p[1] - q[1]) * (p[1] - q[1]) + (p[2] - q[2]) * (p[2] - q[2])

\* min(..., key=...): the first element of locs with the least key.
RECURSIVE MinFrom(_, _, _, _)
MinFrom(dp_coord, locs, i, best) ==
  IF i > Len(locs) THEN best
  ELSE MinFrom(dp_coord, locs, i + 1,
               IF Hypot2(locs[i], dp_coord) < Hypot2(best, dp_coord)
               THEN locs[i] ELSE best)

\* Variant of full_loc_map that keeps the last element with the least key.
RECURSIVE MinFromLast(_, _, _, _)
MinFromLast(dp_coord, locs, i, best) ==
  IF i > Len(locs) THEN best
  ELSE MinFromLast(dp_coord, locs, i + 1,
                   IF Hypot2(locs[i], dp_coord) <= Hypot2(best, dp_coord)
                   THEN locs[i] ELSE best)

full_loc_map_last(dp_coord, cp_image_data_locations) ==
  MinFromLast(dp_coord, cp_image_data_locations, 2, cp_image_data_locations[1])

full_loc_map(dp_coord, cp_image_data_locations) ==
  MinFrom(dp_coord, cp_image_data_locations, 2, cp_image_data_locations[1])

\* ---- renaming and joining ----
\* Variant of Rename that prefixes no column.
Rename_none(columns, exclusive, prefix) == columns

\* DataFrame.rename(columns={col: prefix + col for col in exclusive}).
Rename(columns, exclusive, prefix) ==
  [i \in DOMAIN columns |->
     IF columns[i] \in exclusive THEN prefix \o columns[i] ELSE columns[i]]

\* DataFrame.drop(columns=names).
DropColumns(columns, names) == SelectSeq(columns, LAMBDA c : c \notin names)

\* Column names of pd.merge(left, right, on=key): the left columns, then the
\* right columns without the key; a name on both sides is suffixed _x and _y.
MergeColumns(left, right, key) ==
  LET both == (Range(left) \cap Range(right)) \ {key}
  IN [i \in DOMAIN left |->
        IF left[i] \in both THEN left[i] \o "_x" ELSE left[i]]
     \o
     LET r == DropColumns(right, {key})
     IN [i \in DOMAIN r |-> IF r[i] \in both THEN r[i] \o "_y" ELSE r[i]]

\* Rows of the inner join pd.merge(cp_image_data, dp_image_data,
\* on="Full_Location"): in the order of the CP rows, each CP row paired with
\* every DP row whose Full_Location equals its own, in DP order.
RECURSIVE MergeRows(_, _, _, _)
MergeRows(cp_idx, dp_idx, cp_loc, dp_loc) ==
  IF cp_idx = << >> THEN << >>
  ELSE LET i == Head(cp_idx)
           m == SelectSeq(dp_idx, LAMBDA j : dp_loc[j] = cp_loc[i])
       IN [k \in 1..Len(m) |-> [cp |-> i, dp |-> m[k], Cell_UUID |-> NoUUID]]
          \o MergeRows(Tail(cp_idx), dp_idx, cp_loc, dp_loc)

\* Index labels of the rows of one image among the first n rows, in row order
\* (batch.loc[batch["Metadata_DNA"] == image_path]).
RECURSIVE ImageRowsUpTo(_, _, _)
ImageRowsUpTo(rows, image_path, n) ==
  IF n = 0 THEN << >>
  ELSE IF rows[n].Metadata_DNA = image_path
       THEN Append(ImageRowsUpTo(rows, image_path, n - 1), n)
       ELSE ImageRowsUpTo(rows, image_path, n - 1)

ImageRows(rows, image_path) == ImageRowsUpTo(rows, image_path, Len(rows))

Location(row) == <<row.Location_Center_X, row.Location_Center_Y>>

\* ---- input sets ----
Coords == {p \in (0..MaxCoord) \X (0..MaxCoord) : p[1] = 0 \/ p[2] = 0}

RowSet(images, coords) ==
  {[Metadata_DNA |-> m, Location_Center_X |-> p[1], Location_Center_Y |-> p[2]] :
     m \in images, p \in coords}

RowLists(R, n) == UNION {[1..k -> R] : k \in 0..n}

StdCP == CPMaster
StdDP == DPMaster

EmptyTable == [columns |-> << >>, rows |-> << >>]

NoFile == 0

VARIABLES
  run_pc,               \* position in save_merged_CP_DP_run ("none": no run)
  cp_dir,               \* CP directory: file name -> table
  dp_dir,               \* DP directory: file name -> table
  merged_dir,           \* names of the files written to the merged directory
  queue,                \* sorted CP file names not yet iterated
  cp_batch_data_path,   \* file name of the current iteration
  pc,                   \* position in merge_CP_DP_batch_data
  cp_batch_data,        \* local table cp_batch_data
  dp_batch_data,        \* local table dp_batch_data
  add_cell_uuid,        \* argument add_cell_uuid
  call_columns,         \* column names of the two tables as passed in
  metadata_columns,     \* local list metadata_columns
  image_paths,          \* local list image_paths
  img_i,                \* position of the image loop in image_paths
  dp_full_location,     \* DP index label -> Full_Location after the map
  compiled_merged_data, \* list of per-image merged tables
  result,               \* table returned (at pc = "return")
  raised                \* exception raised ("none" if none)

vars ==
  <<run_pc, cp_dir, dp_dir, merged_dir, queue, cp_batch_data_path, pc,
    cp_batch_data, dp_batch_data, add_cell_uuid, call_columns,
    metadata_columns, image_paths, img_i, dp_full_location,
    compiled_merged_data, result, raised>>

run_vars == <<cp_dir, dp_dir, merged_dir, queue, cp_batch_data_path>>

\* Local state of merge_CP_DP_batch_data on entry.
Enter(cp, dp, uuid) ==
  /\ pc' = "astype"
  /\ cp_batch_data' = cp
  /\ dp_batch_data' = dp
  /\ add_cell_uuid' = uuid
  /\ call_columns' = [cp |-> cp.columns, dp |-> dp.columns]
  /\ metadata_columns' = << >>
  /\ image_paths' = << >>
  /\ img_i' = 1
  /\ dp_full_location' = << >>
  /\ compiled_merged_data' = << >>
  /\ result' = EmptyTable
  /\ raised' = "none"

\* A direct call merge_CP_DP_batch_data(cp, dp, uuid).
InitCall(cp, dp, uuid) ==
  /\ run_pc = "none"
  /\ cp_dir = << >>
  /\ dp_dir = << >>
  /\ merged_dir = {}
  /\ queue = << >>
  /\ cp_batch_data_path = NoFile
  /\ pc = "astype"
  /\ cp_batch_data = cp
  /\ dp_batch_data = dp
  /\ add_cell_uuid = uuid
  /\ call_columns = [cp |-> cp.columns, dp |-> dp.columns]
  /\ metadata_columns = << >>
  /\ image_paths = << >>
  /\ img_i = 1
  /\ dp_full_location = << >>
  /\ compiled_merged_data = << >>
  /\ result = EmptyTable
  /\ raised = "none"

\* Calls on the cells of one image at any of the locations.
InitGeometry ==
  \E c, d \in RowLists(RowSet({1}, Coords), MaxRows) :
    InitCall([columns |-> StdCP, rows |-> c], [columns |-> StdDP, rows |-> d], FALSE)

\* Calls on the cells of several images at two locations.
InitImages ==
  \E c, d \in RowLists(RowSet(Images, {<<0, 0>>, <<MaxCoord, 0>>}), MaxRows) :
    InitCall([columns |-> StdCP, rows |-> c], [columns |-> StdDP, rows |-> d], FALSE)

\* Calls on tables of at most one cell with any of the column lists.
InitSchema ==
  \E c, d \in RowLists(RowSet({1}, {<<0, 0>>}), 1) :
    \E cc \in ColumnChoices(CPMaster), dc \in ColumnChoices(DPMaster) :
      \E uuid \in BOOLEAN :
        InitCall([columns |-> cc, rows |-> c], [columns |-> dc, rows |-> d], uuid)

\* Batch files of at most one cell; a CP file may lack Metadata_DNA.
CPFileTables ==
  {[columns |-> cc, rows |-> c] :
     cc \in {StdCP, DropColumns(StdCP, {"Metadata_DNA"})},
     c \in RowLists(RowSet({1}, {<<0, 0>>}), 1)}

DPFileTables ==
  {[columns |-> StdDP, rows |-> d] : d \in RowLists(RowSet({1}, {<<0, 0>>}), 1)}

\* A call save_merged_CP_DP_run(cp_dir, dp_dir, merged_dir).
InitRun ==
  /\ run_pc = "mkdir"
  /\ \E S \in SUBSET Files : cp_dir \in [S -> CPFileTables]
  /\ \E S \in SUBSET Files : dp_dir \in [S -> DPFileTables]
  /\ merged_dir = {}
  /\ queue = << >>
  /\ cp_batch_data_path = NoFile
  /\ pc = "idle"
  /\ cp_batch_data = EmptyTable
  /\ dp_batch_data = EmptyTable
  /\ add_cell_uuid = TRUE
  /\ call_columns = [cp |-> << >>, dp |-> << >>]
  /\ metadata_columns = << >>
  /\ image_paths = << >>
  /\ img_i = 1
  /\ dp_full_location = << >>
  /\ compiled_merged_data = << >>
  /\ result = EmptyTable
  /\ raised = "none"

Init == InitGeometry \/ InitImages \/ InitSchema \/ InitRun

\* ---- merge_CP_DP_batch_data ----
merge_vars ==
  <<cp_batch_data, dp_batch_data, add_cell_uuid, call_columns, metadata_columns,
    image_paths, img_i, dp_full_location, compiled_merged_data, result>>

\* raise: the exception leaves the function and, inside a run, the run.
Raise(exception) ==
  /\ pc' = "raised"
  /\ raised' = exception
  /\ run_pc' = IF run_pc = "merge" THEN "aborted" ELSE run_pc

\* Lines 64-69: both tables' location columns are coerced to integers.
AsType ==
  /\ pc = "astype"
  /\ cp_batch_data' = [cp_batch_data EXCEPT !.rows = AsTypeInt(@)]
  /\ dp_batch_data' = [dp_batch_data EXCEPT !.rows = AsTypeInt(@)]
  /\ pc' = "check_rows"
  /\ UNCHANGED <<run_pc, run_vars, add_cell_uuid, call_columns, metadata_columns,
                 image_paths, img_i, dp_full_location, compiled_merged_data,
                 result, raised>>

\* Variant of CheckRows that never raises.
CheckRows_pass ==
  /\ pc = "check_rows"
  /\ pc' = "rename"
  /\ UNCHANGED <<run_pc, raised, run_vars, merge_vars>>

\* Lines 73-74: the total row counts are compared.
CheckRows ==
  /\ pc = "check_rows"
  /\ \/ /\ Len(cp_batch_data.rows) # Len(dp_batch_data.rows)
        /\ Raise("IndexError: rows")
     \/ /\ Len(cp_batch_data.rows) = Len(dp_batch_data.rows)
        /\ pc' = "rename"
        /\ UNCHANGED <<run_pc, raised>>
  /\ UNCHANGED <<run_vars, merge_vars>>

\* Lines 81-96: metadata columns are the names in both tables; the other
\* columns of each table get its prefix.
RenameColumns ==
  /\ pc = "rename"
  /\ LET cp_columns == Range(cp_batch_data.columns)
         dp_columns == Range(dp_batch_data.columns)
         metadata == SelectSeq(cp_batch_data.columns, LAMBDA col : col \in dp_columns)
     IN /\ metadata_columns' = metadata
        /\ cp_batch_data' =
             [cp_batch_data EXCEPT
                !.columns = Rename(@, cp_columns \ Range(metadata), "CP__")]
        /\ dp_batch_data' =
             [dp_batch_data EXCEPT
                !.columns = Rename(@, dp_columns \ Range(metadata), "DP__")]
  /\ pc' = "check_dna"
  /\ UNCHANGED <<run_pc, run_vars, add_cell_uuid, call_columns, image_paths, img_i,
                 dp_full_location, compiled_merged_data, result, raised>>

\* Variant of CheckDNA that never raises.
CheckDNA_pass ==
  /\ pc = "check_dna"
  /\ image_paths' =
       Unique([i \in DOMAIN cp_batch_data.rows |-> cp_batch_data.rows[i].Metadata_DNA])
  /\ pc' = "loop"
  /\ UNCHANGED <<run_pc, raised, run_vars, cp_batch_data, dp_batch_data,
                 add_cell_uuid, call_columns, metadata_columns, img_i,
                 dp_full_location, compiled_merged_data, result>>

\* Lines 99-102: Metadata_DNA must be a column of the renamed CP table; the
\* images are its distinct values.
CheckDNA ==
  /\ pc = "check_dna"
  /\ \/ /\ "Metadata_DNA" \notin Range(cp_batch_data.columns)
        /\ Raise("IndexError: Metadata_DNA")
        /\ UNCHANGED image_paths
     \/ /\ "Metadata_DNA" \in Range(cp_batch_data.columns)
        /\ image_paths' =
             Unique([i \in DOMAIN cp_batch_data.rows |->
                       cp_batch_data.rows[i].Metadata_DNA])
        /\ pc' = "loop"
        /\ UNCHANGED <<run_pc, raised>>
  /\ UNCHANGED <<run_vars, cp_batch_data, dp_batch_data, add_cell_uuid,
                 call_columns, metadata_columns, img_i, dp_full_location,
                 compiled_merged_data, result>>

\* Lines 108-141: one iteration of the image loop.
MatchImage ==
  /\ pc = "loop"
  /\ img_i <= Len(image_paths)
  /\ LET image_path == image_paths[img_i]
         cp_idx == ImageRows(cp_batch_data.rows, image_path)
         dp_idx == ImageRows(dp_batch_data.rows, image_path)
         cp_loc == [i \in Range(cp_idx) |-> Location(cp_batch_data.rows[i])]
         cp_locations == [k \in 1..Len(cp_idx) |-> cp_loc[cp_idx[k]]]
         dp_loc == [j \in Range(dp_idx) |->
                      full_loc_map(Location(dp_batch_data.rows[j]), cp_locations)]
         cp_image_columns == Append(cp_batch_data.columns, "Full_Location")
         dp_image_columns ==
           DropColumns(Append(dp_batch_data.columns, "Full_Location"),
                       Range(metadata_columns))
         merged_image_data ==
           [columns |->
              DropColumns(
                MergeColumns(cp_image_columns, dp_image_columns, "Full_Location"),
                {"Full_Location"}),
            rows |-> MergeRows(cp_idx, dp_idx, cp_loc, dp_loc)]
     IN /\ dp_full_location' = dp_loc @@ dp_full_location
        /\ compiled_merged_data' = Append(compiled_merged_data, merged_image_data)
  /\ img_i' = img_i + 1
  /\ UNCHANGED <<run_pc, run_vars, pc, cp_batch_data, dp_batch_data, add_cell_uuid,
                 call_columns, metadata_columns, image_paths, result, raised>>

\* Line 147: pd.concat of the per-image tables; an empty list is a ValueError.
Concat ==
  /\ pc = "loop"
  /\ img_i > Len(image_paths)
  /\ \/ /\ compiled_merged_data = << >>
        /\ Raise("ValueError: concat")
        /\ UNCHANGED result
     \/ /\ compiled_merged_data # << >>
        /\ result' =
             [columns |-> compiled_merged_data[1].columns,
              rows |-> Flatten([k \in DOMAIN compiled_merged_data |->
                                 compiled_merged_data[k].rows])]
        /\ pc' = "uuid"
        /\ UNCHANGED <<run_pc, raised>>
  /\ UNCHANGED <<run_vars, cp_batch_data, dp_batch_data, add_cell_uuid,
                 call_columns, metadata_columns, image_paths, img_i,
                 dp_full_location, compiled_merged_data>>

\* Lines 150-154: with add_cell_uuid a uuid4 value per row is inserted as the
\* first column; the table is returned.
AddUUID ==
  /\ pc = "uuid"
  /\ \/ /\ add_cell_uuid
        /\ \E cell_uuids \in [DOMAIN result.rows -> UUIDs] :
             result' =
               [columns |-> <<"Cell_UUID">> \o result.columns,
                rows |-> [k \in DOMAIN result.rows |->
                           [result.rows[k] EXCEPT !.Cell_UUID = cell_uuids[k]]]]
     \/ /\ ~add_cell_uuid
        /\ UNCHANGED result
  /\ pc' = "return"
  /\ UNCHANGED <<run_pc, run_vars, cp_batch_data, dp_batch_data, add_cell_uuid,
                 call_columns, metadata_columns, image_paths, img_i,
                 dp_full_location, compiled_merged_data, raised>>

\* ---- save_merged_CP_DP_run ----
\* Lines 176-179: the merged directory is made and the CP files are sorted.
Mkdir ==
  /\ run_pc = "mkdir"
  /\ queue' = sorted(DOMAIN cp_dir)
  /\ run_pc' = "for"
  /\ UNCHANGED <<cp_dir, dp_dir, merged_dir, cp_batch_data_path, pc, merge_vars, raised>>

\* Line 179: the loop takes the next CP file, or ends.
ForNext ==
  /\ run_pc = "for"
  /\ \/ /\ queue # << >>
        /\ cp_batch_data_path' = Head(queue)
        /\ queue' = Tail(queue)
        /\ run_pc' = "read_cp"
     \/ /\ queue = << >>
        /\ run_pc' = "done"
        /\ UNCHANGED <<queue, cp_batch_data_path>>
  /\ UNCHANGED <<cp_dir, dp_dir, merged_dir, pc, merge_vars, raised>>

\* Lines 181-185: the CP batch file is read.
ReadCP ==
  /\ run_pc = "read_cp"
  /\ cp_batch_data' = cp_dir[cp_batch_data_path]
  /\ run_pc' = "read_dp"
  /\ UNCHANGED <<run_vars, pc, dp_batch_data, add_cell_uuid, call_columns,
                 metadata_columns, image_paths, img_i, dp_full_location,
                 compiled_merged_data, result, raised>>

\* Lines 187-194: the DP file of the same name is read; none is an error.
ReadDP ==
  /\ run_pc = "read_dp"
  /\ \/ /\ cp_batch_data_path \notin DOMAIN dp_dir
        /\ raised' = "FileNotFoundError"
        /\ run_pc' = "aborted"
        /\ UNCHANGED dp_batch_data
     \/ /\ cp_batch_data_path \in DOMAIN dp_dir
        /\ dp_batch_data' = dp_dir[cp_batch_data_path]
        /\ run_pc' = "call"
        /\ UNCHANGED raised
  /\ UNCHANGED <<run_vars, pc, cp_batch_data, add_cell_uuid, call_columns,
                 metadata_columns, image_paths, img_i, dp_full_location,
                 compiled_merged_data, result>>

\* Line 197: merge_CP_DP_batch_data is called with the default add_cell_uuid.
Call ==
  /\ run_pc = "call"
  /\ Enter(cp_batch_data, dp_batch_data, TRUE)
  /\ run_pc' = "merge"
  /\ UNCHANGED run_vars

\* Lines 200-203: the returned table is written under the CP file's name; the
\* locals of the finished call are gone.
ToCsv ==
  /\ run_pc = "merge"
  /\ pc = "return"
  /\ merged_dir' = merged_dir \cup {cp_batch_data_path}
  /\ run_pc' = "for"
  /\ pc' = "idle"
  /\ metadata_columns' = << >>
  /\ image_paths' = << >>
  /\ img_i' = 1
  /\ dp_full_location' = << >>
  /\ compiled_merged_data' = << >>
  /\ UNCHANGED <<cp_dir, dp_dir, queue, cp_batch_data_path, cp_batch_data,
                 dp_batch_data, add_cell_uuid, call_columns, result, raised>>

Next ==
  \/ AsType
  \/ CheckRows
  \/ RenameColumns
  \/ CheckDNA
  \/ MatchImage
  \/ Concat
  \/ AddUUID
  \/ Mkdir
  \/ ForNext
  \/ ReadCP
  \/ ReadDP
  \/ Call
  \/ ToCsv

Spec == Init /\ [][Next]_vars

\* ---- properties ----
CPRows == cp_batch_data.rows
DPRows == dp_batch_data.rows

CPOfImage(m) == {i \in DOMAIN CPRows : CPRows[i].Metadata_DNA = m}
DPOfImage(m) == {j \in DOMAIN DPRows : DPRows[j].Metadata_DNA = m}

AllImages ==
  {CPRows[i].Metadata_DNA : i \in DOMAIN CPRows}
    \cup {DPRows[j].Metadata_DNA : j \in DOMAIN DPRows}

PerImageEqual ==
  \A m \in AllImages : Cardinality(CPOfImage(m)) = Cardinality(DPOfImage(m))

\* Squared distance of CP row i to DP row j (integer centroids).
Dist(i, j) == Hypot2(Location(CPRows[i]), Location(DPRows[j]))

\* The CP rows DP row j may select: the first row of its image at the least distance.
Selected(j) ==
  {i \in CPOfImage(DPRows[j].Metadata_DNA) :
     \A l \in CPOfImage(DPRows[j].Metadata_DNA) :
       /\ Dist(i, j) <= Dist(l, j)
       /\ l < i => Dist(l, j) > Dist(i, j)}

\* Number of columns of the list s that are named e.
Count(s, e) == Cardinality({i \in DOMAIN s : s[i] = e})

\* Number of returned records that satisfy P.
OutputCount(P(_)) == Cardinality({k \in DOMAIN result.rows : P(result.rows[k])})

\* C1: when every image has as many CP rows as DP rows, the returned table
\* has exactly as many rows as the DP batch, whatever the centroids are.
C1_RowCountEqualsDP ==
  (pc = "return" /\ PerImageEqual) => Len(result.rows) = Len(DPRows)

\* C2: the CP centroid a DP row is mapped to is at the least Euclidean
\* distance from the DP row's integer centroid among the CP centroids of the
\* same image, and among the CP rows at that distance it is the centroid of
\* the first one in CP row order.
C2_NearestFirst ==
  \A j \in DOMAIN dp_full_location :
    \E i \in CPOfImage(DPRows[j].Metadata_DNA) :
      /\ dp_full_location[j] = Location(CPRows[i])
      /\ \A l \in CPOfImage(DPRows[j].Metadata_DNA) :
           /\ Dist(i, j) <= Dist(l, j)
           /\ l < i => Dist(l, j) > Dist(i, j)

\* A DP row has been mapped while two CP rows of its image with different
\* centroids tie for the least distance, and a third CP candidate or not.
C2_Witness ==
  \E j \in DOMAIN dp_full_location :
    \E i, l \in CPOfImage(DPRows[j].Metadata_DNA) :
      /\ i < l
      /\ Location(CPRows[i]) # Location(CPRows[l])
      /\ Dist(i, j) = Dist(l, j)
      /\ \A n \in CPOfImage(DPRows[j].Metadata_DNA) : Dist(i, j) <= Dist(n, j)
      /\ dp_full_location[j] = Location(CPRows[i])

\* C3: when some image has a different number of CP rows and DP rows, the
\* merge raises and returns no table, also with equal total row counts.
C3_PerImageMismatchRaises ==
  pc = "return" => PerImageEqual

\* C4: when the merge returns, every DP row of the batch is in at least one
\* merged record.
C4_EveryDPRowMerged ==
  pc = "return" => \A j \in DOMAIN DPRows : OutputCount(LAMBDA r : r.dp = j) >= 1

\* C5: in a returned table every column name of both inputs appears once
\* and unprefixed, every name of the CP table alone appears as CP__name,
\* every name of the DP table alone as DP__name, and the only other column
\* is Cell_UUID when it was asked for; Full_Location is not a column.
C5_Columns ==
  pc = "return" =>
    LET out == result.columns
        cpC == Range(call_columns.cp)
        dpC == Range(call_columns.dp)
    IN /\ \A c \in cpC \cap dpC : Count(out, c) = 1
       /\ \A c \in cpC \ dpC : Count(out, "CP__" \o c) = 1 /\ Count(out, c) = 0
       /\ \A c \in dpC \ cpC : Count(out, "DP__" \o c) = 1 /\ Count(out, c) = 0
       /\ Range(out) \subseteq
            (cpC \cap dpC) \cup {"CP__" \o c : c \in cpC \ dpC}
              \cup {"DP__" \o c : c \in dpC \ cpC}
              \cup (IF add_cell_uuid THEN {"Cell_UUID"} ELSE {})
       /\ "Full_Location" \notin Range(out)

\* A table was returned for inputs with a shared column, a CP-only column
\* and a DP-only column besides the required ones.
C5_Witness ==
  /\ pc = "return"
  /\ Range(call_columns.cp) \ Range(call_columns.dp) = {"Metadata_Plate", "AreaShape_Area"}
  /\ "efficientnet_0" \in Range(call_columns.dp) \ Range(call_columns.cp)
  /\ Len(result.rows) > 0

\* CP files that sort before file f.
Before(f) == {g \in DOMAIN cp_dir : g < f}

\* C6: in a run the written files are always the first CP files in
\* ascending name order; while a file is being read or merged exactly the
\* files before it are written; a CP file without DP file ends the run with
\* an error at that file, nothing being written for it or a later file, and
\* is never passed over.
C6_RunOrder ==
  /\ merged_dir \subseteq DOMAIN cp_dir
  /\ \A f \in merged_dir : Before(f) \subseteq merged_dir /\ f \in DOMAIN dp_dir
  /\ run_pc \in {"read_cp", "read_dp", "call", "merge", "aborted"} =>
       merged_dir = Before(cp_batch_data_path)
  /\ raised = "FileNotFoundError" =>
       /\ run_pc = "aborted"
       /\ cp_batch_data_path \notin DOMAIN dp_dir
  /\ (run_pc = "aborted" /\ cp_batch_data_path \notin DOMAIN dp_dir) =>
       raised = "FileNotFoundError"
  /\ run_pc = "done" => merged_dir = DOMAIN cp_dir

\* A run ended at a CP file without DP file after writing an earlier file
\* and with a later CP file left.
C6_Witness ==
  /\ run_pc = "aborted"
  /\ raised = "FileNotFoundError"
  /\ merged_dir # {}
  /\ queue # << >>

\* C7: with different total row counts the merge raises before any image
\* is matched and returns no table; in a run nothing is written for the file.
C7_RowCountMismatch ==
  (pc # "idle" /\ Len(CPRows) # Len(DPRows)) =>
    /\ pc \in {"astype", "check_rows", "raised"}
    /\ pc = "raised" => raised = "IndexError: rows"
    /\ dp_full_location = << >>
    /\ compiled_merged_data = << >>
    /\ run_pc # "none" => (run_pc \in {"merge", "aborted"} /\ cp_batch_data_path \notin merged_dir)

\* The row count check has raised inside a run that wrote an earlier file.
C7_Witness ==
  /\ pc = "raised"
  /\ raised = "IndexError: rows"
  /\ Len(CPRows) # Len(DPRows)
  /\ run_pc = "aborted"
  /\ merged_dir # {}

\* C8: when the CP table has no Metadata_DNA column and the row counts are
\* equal, the merge raises before any image is matched or joined and returns
\* no table.
C8_MissingDNA ==
  (pc # "idle" /\ "Metadata_DNA" \notin Range(call_columns.cp)
     /\ Len(CPRows) = Len(DPRows)) =>
    /\ pc \in {"astype", "check_rows", "rename", "check_dna", "raised"}
    /\ pc = "raised" => raised = "IndexError: Metadata_DNA"
    /\ image_paths = << >>
    /\ dp_full_location = << >>
    /\ compiled_merged_data = << >>

\* The Metadata_DNA check has raised for non-empty tables of equal length
\* whose CP table lacks the column.
C8_Witness ==
  /\ pc = "raised"
  /\ raised = "IndexError: Metadata_DNA"
  /\ "Metadata_DNA" \notin Range(call_columns.cp)
  /\ Len(CPRows) = Len(DPRows)
  /\ Len(CPRows) > 0

\* C10: in a returned table every record pairs a DP row with the CP row it
\* selected as nearest, and every CP row is in as many records as there are
\* DP rows that selected it.
C10_GreedyCounts ==
  pc = "return" =>
    /\ \A k \in DOMAIN result.rows : result.rows[k].cp \in Selected(result.rows[k].dp)
    /\ \A i \in DOMAIN CPRows :
         OutputCount(LAMBDA r : r.cp = i)
           = Cardinality({j \in DOMAIN DPRows : i \in Selected(j)})

====
